---------------------------- MODULE Spec2Model ----------------------------
(***************************************************************************)
(* Healthcare Knowledge Assistant: the ingestion pipeline, the /query      *)
(* pipeline (RAGEngine.query and its endpoint) and the tool registry,      *)
(* modelled from src/backend.                                              *)
(*                                                                         *)
(* The persisted Chroma collection is the sequence coll of stored chunks   *)
(* (one entry per stored copy).  Endpoint handlers are "async def" bodies  *)
(* without any await, so one handler runs to completion before the next    *)
(* one starts; a query is nevertheless modelled step by step so that the   *)
(* order of its steps and the place where each exception is raised are     *)
(* visible.  A call that leaves the repository (Chroma, the embedding and  *)
(* chat providers, langchain) either returns or raises: that is an input   *)
(* of the step, drawn from BOOLEAN.                                        *)
(***************************************************************************)
EXTENDS Integers, Sequences, FiniteSets, TLC

VARIABLES
    dirExists,   \* settings.DOCUMENTS_PATH exists on disk
    files,       \* the .txt files below it
    coll,        \* the persisted collection: the stored chunks, in insertion order
    runs,        \* the force_reindex flag of every completed Chroma.from_documents
    retriever,   \* RAGEngine.vectorstore / .retriever: the handle the engine holds
    qs,          \* per request slot: the /query request (or direct call) in flight
    lastResp     \* the response most recently handed back to a caller

vars == <<dirExists, files, coll, runs, retriever, qs, lastResp>>

---------------------------------------------------------------------------
\* Bounds of the model.
MaxWrites == 2      \* completed ingestion runs that wrote to the collection
MaxElapsed == 1     \* measured seconds of one ingestion run
NQueries == 2       \* request slots
MaxChunkSize == 4   \* largest CHUNK_SIZE tried (characters)
MaxTextLen == 6     \* longest document tried (characters)
MaxTopK == 12       \* largest RETRIEVAL_TOP_K tried
MaxStored == 12     \* most chunks in the collection retrieved from

\* Program constants (backend/config.py).
CHUNK_SIZE == 1000
CHUNK_OVERLAP == 200
RETRIEVAL_TOP_K == 5

Docs == {"a.txt", "b.txt"}
DocOrder == <<"a.txt", "b.txt">>
DocLen(d) == IF d = "a.txt" THEN 150 ELSE 1700

NoResp == [kind |-> "none"]

---------------------------------------------------------------------------
\* document_processor.py

\* RecursiveCharacterTextSplitter on a text of n characters: the lengths of
\* the chunks, windows of chunk_size that overlap by chunk_overlap.
RECURSIVE TextSplit(_)
TextSplit(n) ==
    IF n <= CHUNK_SIZE THEN <<n>>
    ELSE <<CHUNK_SIZE>> \o TextSplit(n - (CHUNK_SIZE - CHUNK_OVERLAP))

\* text_splitter.split_documents: every document's pieces, in document order.
RECURSIVE SplitAll(_)
SplitAll(documents) ==
    IF documents = <<>> THEN <<>>
    ELSE LET d == Head(documents)
             lens == TextSplit(DocLen(d))
         IN  [i \in 1..Len(lens) |-> [source |-> d, len |-> lens[i]]]
             \o SplitAll(Tail(documents))

\* A tagging that counts the chunks of each document from 0 again.
split_documents_resetting(documents) ==
    LET pieces == SplitAll(documents)
    IN  [i \in 1..Len(pieces) |->
            [source |-> pieces[i].source,
             chunk_index |-> Cardinality({j \in 1..(i - 1) :
                                            pieces[j].source = pieces[i].source}),
             chunk_size |-> pieces[i].len]]

\* split_documents: the pieces, each tagged with its index in the whole
\* batch (enumerate, from 0) and its own length.
split_documents(documents) ==
    LET pieces == SplitAll(documents)
    IN  [i \in 1..Len(pieces) |->
            [source |-> pieces[i].source,
             chunk_index |-> i - 1,
             chunk_size |-> pieces[i].len]]

\* load_documents: FileNotFoundError without the directory, ValueError when
\* the loader raises or finds no .txt file, the documents otherwise.
load_documents(loaderRaises) ==
    IF ~dirExists THEN [exc |-> "FileNotFoundError", documents |-> <<>>]
    ELSE IF loaderRaises THEN [exc |-> "ValueError", documents |-> <<>>]
    ELSE LET documents == SelectSeq(DocOrder, LAMBDA d : d \in files)
         IN  IF Len(documents) = 0
             THEN [exc |-> "ValueError", documents |-> <<>>]
             ELSE [exc |-> "none", documents |-> documents]

\* existing_db._collection.count() and vectorstore._collection.count()
CollectionCount(c) == Len(c)

\* A store that rebuilds: the collection is cleared before the chunks go in.
Chroma_replacing(c, chunks) == chunks

\* Chroma.from_documents(documents=chunks, ...): the chunks are added under
\* fresh ids to whatever the collection already holds.
Chroma_from_documents(c, chunks) == c \o chunks

\* The guard of ingest_documents' early return: not force_reindex, the
\* existing-count check did not raise, and it counted at least one chunk.
AlreadyIngested(force_reindex, checkRaises, c) ==
    /\ ~force_reindex
    /\ ~checkRaises
    /\ CollectionCount(c) > 0

\* ingest_documents(force_reindex) on collection c.  env: which of the calls
\* it makes raise, and the elapsed time it measures.  The result names the
\* exception raised (or "none"), the tuple returned, the collection left
\* behind and the pipeline stages that ran.
ingest_documents(force_reindex, c, env) ==
    IF AlreadyIngested(force_reindex, env.checkRaises, c)
    THEN [exc |-> "none", documents |-> 0, chunks |-> CollectionCount(c),
          time |-> 0, coll |-> c, wrote |-> FALSE, stages |-> <<>>]
    ELSE LET ld == load_documents(env.loaderRaises) IN
         IF ld.exc # "none"
         THEN [exc |-> ld.exc, documents |-> 0, chunks |-> 0,
               time |-> 0, coll |-> c, wrote |-> FALSE, stages |-> <<"load">>]
         ELSE LET chunks == split_documents(ld.documents) IN
              IF env.storeRaises
              THEN [exc |-> "RuntimeError", documents |-> 0, chunks |-> 0,
                    time |-> 0, coll |-> c, wrote |-> FALSE,
                    stages |-> <<"load", "split", "embed">>]
              ELSE [exc |-> "none", documents |-> Len(ld.documents),
                    chunks |-> Len(chunks), time |-> env.elapsed,
                    coll |-> Chroma_from_documents(c, chunks), wrote |-> TRUE,
                    stages |-> <<"load", "split", "embed">>]

\* get_document_count: the collection's count, 0 when anything raises.
get_document_count(c, raises) == IF raises THEN 0 ELSE CollectionCount(c)

IngestEnvs ==
    [checkRaises : BOOLEAN, loaderRaises : BOOLEAN, storeRaises : BOOLEAN,
     elapsed : 0..MaxElapsed]

---------------------------------------------------------------------------
\* models.py, tools/registry.py: the closed sets the query pipeline reads

UserRole == {"doctor", "receptionist", "billing", "general"}

\* What a direct caller of RAGEngine.query can pass as user_role: a UserRole
\* member, a plain string that names no role ("admin"), or a member of
\* another Enum class (ToolCategory.TIME, whose value is "time").
RoleValues == UserRole \cup {"admin", "time"}

\* Whether the object has a .value attribute (Enum members do, str does not).
HasValueAttr(role) == role # "admin"

Questions == {"q1", "q2"}

\* ToolRegistry._initialize_tools: the registered names, in registration order.
ToolNames ==
    <<"get_current_datetime", "calculate_age", "get_working_hours",
      "search_internal_docs", "web_search">>

\* The texts the chat model may answer with, as words.
Answers ==
    { <<"Visiting", "hours", "are", "posted">>,
      <<"Using", "get_current_datetime", "to", "check">>,
      <<"CALCULATE_AGE", "and", "web_searches">> }

ErrorAnswer == <<"Error", "processing", "query">>

\* str.lower() on the words above.
Lower(w) ==
    CASE w = "Visiting" -> "visiting"
      [] w = "Using" -> "using"
      [] w = "CALCULATE_AGE" -> "calculate_age"
      [] w = "Error" -> "error"
      [] OTHER -> w

DISCLAIMER == "IMPORTANT DISCLAIMER"

---------------------------------------------------------------------------
\* rag_engine.py

\* The steps of RAGEngine.query in program order.  "retrieve", "stuff" and
\* "generate" are what qa_chain.invoke does: fetch the top-k chunks through
\* the chain's retriever, fill the prompt with them and the question, call
\* the chat model.
Steps ==
    <<"acquire", "schemas", "template", "enhance", "chain",
      "retrieve", "stuff", "generate", "sources", "extract", "assemble">>

StepIndex(step) == CHOOSE i \in 1..Len(Steps) : Steps[i] = step

\* A pipeline that goes from chain creation straight to filling the prompt.
NextStep_skipping(step) ==
    IF step = "chain" THEN "stuff" ELSE Steps[StepIndex(step) + 1]

\* The step that follows a step that returned normally.
NextStep(step) == Steps[StepIndex(step) + 1]

\* A query whose whole body is inside the try.
InTry_whole_body(step) == \E i \in 1..Len(Steps) : Steps[i] = step

\* The statements of query inside "try:" (the qa_chain.invoke call).
InTry(step) == step \in {"retrieve", "stuff", "generate"}

NoResult == [kind |-> "none"]

\* A handle on the persisted collection: who opened it (0: the constructor)
\* and how many chunks the collection held when it was opened.
Handle(by, count) == [by |-> by, count |-> count]

IdleQ ==
    [pc |-> "idle", entry |-> "none", question |-> "none", user_role |-> "none",
     include_sources |-> FALSE, tool_schemas |-> <<>>, template |-> <<>>,
     chain |-> [retriever |-> Handle(0, 0), prompt |-> <<>>], docs |-> <<>>,
     prompt |-> <<>>, answer |-> <<>>, sources |-> <<>>, tools_used |-> <<>>,
     trace |-> <<>>]

\* ROLE_PROMPTS: what the text of each role's prompt tells the model, one
\* tag per rule written in it.
ROLE_PROMPTS(role) ==
    CASE role = "doctor" ->
           {"never diagnose", "never prescribe", "never recommend treatment",
            "only the provided context", "refusal phrase", "emergencies: call 911"}
      [] role = "receptionist" ->
           {"only the provided context", "medical questions: to medical staff",
            "refusal phrase", "emergencies: call 911"}
      [] role = "billing" ->
           {"only the provided context", "no financial recommendations",
            "insurance questions: to the insurer", "refusal phrase"}
      [] role = "general" ->
           {"only the provided context", "no medical advice",
            "medical questions: to professionals", "emergencies: call 911"}

\* ROLE_PROMPTS.get(user_role, ROLE_PROMPTS[UserRole.GENERAL])
RolePrompt(user_role) == IF user_role \in UserRole THEN user_role ELSE "general"

\* _create_prompt_template: role context, context block, question block,
\* response instructions.
create_prompt_template(user_role) ==
    << [section |-> "role", of |-> RolePrompt(user_role)],
       [section |-> "context", of |-> "{context}"],
       [section |-> "question", of |-> "{question}"],
       [section |-> "response", of |-> "instructions"] >>

\* A replacement that puts the block right after the role context.
RECURSIVE InsertBeforeResponse_after_role(_, _)
InsertBeforeResponse_after_role(template, block) ==
    IF template = <<>> THEN <<>>
    ELSE IF Head(template).section = "role"
         THEN <<Head(template)>> \o block
                  \o InsertBeforeResponse_after_role(Tail(template), block)
         ELSE <<Head(template)>> \o InsertBeforeResponse_after_role(Tail(template), block)

\* template.replace("===== RESPONSE =====", tool_info + "\n===== RESPONSE =====")
RECURSIVE InsertBeforeResponse(_, _)
InsertBeforeResponse(template, block) ==
    IF template = <<>> THEN <<>>
    ELSE IF Head(template).section = "response"
         THEN block \o <<Head(template)>> \o InsertBeforeResponse(Tail(template), block)
         ELSE <<Head(template)>> \o InsertBeforeResponse(Tail(template), block)

\* A tool block that also names the handle the engine holds at the moment.
EnhanceTemplate_with_handle(template, tool_schemas) ==
    InsertBeforeResponse(template,
        << [section |-> "tools", of |-> Append(tool_schemas, retriever)] >>)

\* The tool block of query (empty without schemas), put into the template
\* unless the template already holds one.
EnhanceTemplate(template, tool_schemas) ==
    LET tool_info == IF tool_schemas # <<>>
                     THEN << [section |-> "tools", of |-> tool_schemas] >>
                     ELSE <<>>
    IN  IF \E i \in 1..Len(template) : template[i].section = "tools"
        THEN template
        ELSE InsertBeforeResponse(template, tool_info)

\* The similarity order of the stored chunks for a question: stable for a
\* given collection state (stored order for q1, its reverse for q2).
Ranked(c, question) ==
    IF question = "q1" THEN c
    ELSE [i \in 1..Len(c) |-> c[Len(c) + 1 - i]]

Min(a, b) == IF a <= b THEN a ELSE b

\* A search that returns every stored chunk, best first.
TopK_all(c, question) == Ranked(c, question)

\* retriever.get_relevant_documents with search_kwargs k = RETRIEVAL_TOP_K
TopK(c, question) == SubSeq(Ranked(c, question), 1, Min(RETRIEVAL_TOP_K, Len(c)))

\* _process_sources: scores in hundredths, previews as their length.
process_sources(source_documents) ==
    [i \in 1..Len(source_documents) |->
        [filename |-> source_documents[i].source,
         chunk_index |-> source_documents[i].chunk_index,
         relevance_score |-> 100 - (i - 1) * 10,
         content_preview |-> Min(source_documents[i].chunk_size, 200)
                             + (IF source_documents[i].chunk_size > 200 THEN 3 ELSE 0)]]

\* "a in b" for two strings of the vocabulary above: equal, or a proper
\* substring ("web_search" in "web_searches").
Substring(a, b) == a = b \/ (a = "web_search" /\ b = "web_searches")

\* A scan that compares the names with the response as it was written.
extract_tools_used_case_sensitive(response) ==
    SelectSeq(ToolNames,
              LAMBDA n : \E i \in 1..Len(response) : Substring(n, response[i]))

\* _extract_tools_used: the registered names, in registry order, that occur
\* in the lowered response.
extract_tools_used(response) ==
    SelectSeq(ToolNames,
              LAMBDA n : \E i \in 1..Len(response) :
                            Substring(Lower(n), Lower(response[i])))

\* An except branch that still reports the chunks retrieved before the failure.
ErrorResult_keeping_sources(rec, t) ==
    [kind |-> "result", question |-> rec.question, answer |-> ErrorAnswer,
     sources |-> process_sources(rec.docs), user_role |-> rec.user_role,
     disclaimer |-> DISCLAIMER, processing_time_seconds |-> t, tools_used |-> <<>>]

\* The dict query returns from its except branch.
ErrorResult(rec, t) ==
    [kind |-> "result", question |-> rec.question, answer |-> ErrorAnswer,
     sources |-> <<>>, user_role |-> rec.user_role, disclaimer |-> DISCLAIMER,
     processing_time_seconds |-> t, tools_used |-> <<>>]

\* The dict query returns at its end.
FinalResult(rec, t) ==
    [kind |-> "result", question |-> rec.question, answer |-> rec.answer,
     sources |-> rec.sources, user_role |-> rec.user_role, disclaimer |-> DISCLAIMER,
     processing_time_seconds |-> t, tools_used |-> rec.tools_used]

\* What the caller of query gets: the dict it returned, or the exception that
\* escaped it (at = the step that raised).  The endpoint answers 200 with the
\* dict and 500 on any exception; a direct caller has no status (0).
Response(rec, outcome, at, result) ==
    [kind |-> "query", entry |-> rec.entry,
     status |-> IF rec.entry = "http"
                THEN (IF outcome = "returned" THEN 200 ELSE 500)
                ELSE 0,
     outcome |-> outcome, at |-> at, result |-> result,
     question |-> rec.question, user_role |-> rec.user_role,
     include_sources |-> rec.include_sources,
     template |-> rec.template, chain |-> rec.chain, trace |-> rec.trace]

\* The request is over: its response is handed back and its slot is free.
Finish(q, resp) ==
    /\ lastResp' = resp
    /\ qs' = [qs EXCEPT ![q] = IdleQ]

\* query returns `result`: building the dict reads user_role.value, which
\* raises AttributeError when the object has no such attribute.
Return(q, rec, at, result) ==
    IF HasValueAttr(rec.user_role)
    THEN Finish(q, Response(rec, "returned", at, result))
    ELSE Finish(q, Response(rec, "raised", "AttributeError", NoResult))

\* A step raised.  Inside the try the except branch returns the error dict;
\* anywhere else the exception escapes query.
Raise(q, rec, step) ==
    IF InTry(step)
    THEN \E t \in 0..MaxElapsed : Return(q, rec, step, ErrorResult(rec, t))
    ELSE Finish(q, Response(rec, "raised", step, NoResult))

\* The record of a step that is being executed.
At(q, step) == [qs[q] EXCEPT !.trace = Append(@, step)]

\* A step returned normally with the record rec.
Advance(q, rec, step) ==
    /\ qs' = [qs EXCEPT ![q] = [rec EXCEPT !.pc = NextStep(step)]]
    /\ UNCHANGED lastResp

---------------------------------------------------------------------------
\* main.py: POST /query

Idle == \A q \in 1..NQueries : qs[q].pc = "idle"

\* The request body passed validation (QueryRequest: user_role is a UserRole).
QueryEndpoint(q) ==
    /\ Idle
    /\ \E question \in Questions, user_role \in UserRole, include_sources \in BOOLEAN :
         qs' = [qs EXCEPT ![q] =
                   [IdleQ EXCEPT !.pc = "check", !.entry = "http",
                                 !.question = question, !.user_role = user_role,
                                 !.include_sources = include_sources]]
    /\ lastResp' = NoResp
    /\ UNCHANGED <<dirExists, files, coll, runs, retriever>>

\* An endpoint that never takes the no-documents branch.
NoDocuments_never(doc_count) == doc_count < 0

\* "if doc_count == 0"
NoDocuments(doc_count) == doc_count = 0

\* The endpoint's check before it calls rag_engine.query.
CheckDocuments(q) ==
    /\ qs[q].pc = "check"
    /\ \E raises \in BOOLEAN :
         LET doc_count == get_document_count(coll, raises) IN
         IF NoDocuments(doc_count)
         THEN Finish(q, [kind |-> "query", entry |-> "http", status |-> 400,
                         outcome |-> "no_documents", at |-> "check",
                         result |-> NoResult,
                         question |-> qs[q].question, user_role |-> qs[q].user_role,
                         include_sources |-> qs[q].include_sources,
                         template |-> <<>>, chain |-> qs[q].chain,
                         trace |-> qs[q].trace])
         ELSE /\ qs' = [qs EXCEPT ![q].pc = "acquire"]
              /\ UNCHANGED lastResp
    /\ UNCHANGED <<dirExists, files, coll, runs, retriever>>

---------------------------------------------------------------------------
\* rag_engine.py: RAGEngine.query, step by step

\* An engine that keeps the handle it already holds.
get_vectorstore_cached(q) == retriever

\* document_processor.get_vectorstore(), called by query q: a new Chroma
\* object on the persisted collection as it is now.
get_vectorstore(q) == Handle(q, CollectionCount(coll))

\* What a search through handle h can see of collection c: everything when
\* the handle was opened on c as it is; through an older handle the chunks
\* stored since may or may not be visible.
Visible(h, c) == {SubSeq(c, 1, n) : n \in {Min(h.count, Len(c)), Len(c)}}

\* self.vectorstore = document_processor.get_vectorstore();
\* self.retriever = self.vectorstore.as_retriever(...)
AcquireHandle(q) ==
    /\ qs[q].pc = "acquire"
    /\ \E raises \in BOOLEAN :
         IF raises
         THEN Raise(q, At(q, "acquire"), "acquire") /\ UNCHANGED retriever
         ELSE Advance(q, At(q, "acquire"), "acquire") /\ retriever' = get_vectorstore(q)
    /\ UNCHANGED <<dirExists, files, coll, runs>>

\* tool_schemas = tool_registry.get_all_schemas()
GetToolSchemas(q) ==
    /\ qs[q].pc = "schemas"
    /\ \E raises \in BOOLEAN :
         IF raises
         THEN Raise(q, At(q, "schemas"), "schemas")
         ELSE Advance(q, [At(q, "schemas") EXCEPT !.tool_schemas = ToolNames], "schemas")
    /\ UNCHANGED <<dirExists, files, coll, runs, retriever>>

\* prompt_template = self._create_prompt_template(user_role)
CreatePromptTemplate(q) ==
    /\ qs[q].pc = "template"
    /\ \E raises \in BOOLEAN :
         IF raises
         THEN Raise(q, At(q, "template"), "template")
         ELSE Advance(q, [At(q, "template") EXCEPT
                             !.template = create_prompt_template(qs[q].user_role)],
                      "template")
    /\ UNCHANGED <<dirExists, files, coll, runs, retriever>>

\* The tool block is built and put into the template.
EnhancePrompt(q) ==
    /\ qs[q].pc = "enhance"
    /\ Advance(q, [At(q, "enhance") EXCEPT
                      !.template = EnhanceTemplate(qs[q].template, qs[q].tool_schemas)],
               "enhance")
    /\ UNCHANGED <<dirExists, files, coll, runs, retriever>>

\* qa_chain = RetrievalQA.from_chain_type(retriever=self.retriever, prompt=...)
CreateChain(q) ==
    /\ qs[q].pc = "chain"
    /\ \E raises \in BOOLEAN :
         IF raises
         THEN Raise(q, At(q, "chain"), "chain")
         ELSE Advance(q, [At(q, "chain") EXCEPT
                             !.chain = [retriever |-> retriever,
                                        prompt |-> qs[q].template]],
                      "chain")
    /\ UNCHANGED <<dirExists, files, coll, runs, retriever>>

\* qa_chain.invoke, first part: the chain's retriever searches the collection.
Retrieve(q) ==
    /\ qs[q].pc = "retrieve"
    /\ \E raises \in BOOLEAN :
         IF raises
         THEN Raise(q, At(q, "retrieve"), "retrieve")
         ELSE \E seen \in Visible(qs[q].chain.retriever, coll) :
                Advance(q, [At(q, "retrieve") EXCEPT !.docs = TopK(seen, qs[q].question)],
                        "retrieve")
    /\ UNCHANGED <<dirExists, files, coll, runs, retriever>>

\* PromptTemplate.format(context=..., question=...): the two placeholders
\* are replaced by the text of the chunks and by the question.
format_prompt(template, docs, question) ==
    [i \in 1..Len(template) |->
        CASE template[i].section = "context" -> [section |-> "context", of |-> docs]
          [] template[i].section = "question" -> [section |-> "question", of |-> question]
          [] OTHER -> template[i]]

\* qa_chain.invoke, second part: the prompt is filled with chunks and question.
StuffPrompt(q) ==
    /\ qs[q].pc = "stuff"
    /\ \E raises \in BOOLEAN :
         IF raises
         THEN Raise(q, At(q, "stuff"), "stuff")
         ELSE Advance(q, [At(q, "stuff") EXCEPT
                             !.prompt = format_prompt(qs[q].chain.prompt, qs[q].docs,
                                                      qs[q].question)],
                      "stuff")
    /\ UNCHANGED <<dirExists, files, coll, runs, retriever>>

\* qa_chain.invoke, last part: the chat model answers the prompt.
Generate(q) ==
    /\ qs[q].pc = "generate"
    /\ \E raises \in BOOLEAN :
         IF raises
         THEN Raise(q, At(q, "generate"), "generate")
         ELSE \E answer \in Answers :
                Advance(q, [At(q, "generate") EXCEPT !.answer = answer], "generate")
    /\ UNCHANGED <<dirExists, files, coll, runs, retriever>>

\* sources = self._process_sources(result["source_documents"]) when asked for
ProcessSources(q) ==
    /\ qs[q].pc = "sources"
    /\ \E raises \in BOOLEAN :
         IF raises
         THEN Raise(q, At(q, "sources"), "sources")
         ELSE Advance(q, [At(q, "sources") EXCEPT
                             !.sources = IF qs[q].include_sources
                                         THEN process_sources(qs[q].docs)
                                         ELSE <<>>],
                      "sources")
    /\ UNCHANGED <<dirExists, files, coll, runs, retriever>>

\* tools_used = self._extract_tools_used(result.get("result", ""))
ExtractTools(q) ==
    /\ qs[q].pc = "extract"
    /\ \E raises \in BOOLEAN :
         IF raises
         THEN Raise(q, At(q, "extract"), "extract")
         ELSE Advance(q, [At(q, "extract") EXCEPT
                             !.tools_used = extract_tools_used(qs[q].answer)],
                      "extract")
    /\ UNCHANGED <<dirExists, files, coll, runs, retriever>>

\* return {...}
AssembleResult(q) ==
    /\ qs[q].pc = "assemble"
    /\ \E t \in 0..MaxElapsed :
         Return(q, At(q, "assemble"), "assemble", FinalResult(At(q, "assemble"), t))
    /\ UNCHANGED <<dirExists, files, coll, runs, retriever>>

QueryStep(q) ==
    \/ AcquireHandle(q)
    \/ GetToolSchemas(q)
    \/ CreatePromptTemplate(q)
    \/ EnhancePrompt(q)
    \/ CreateChain(q)
    \/ Retrieve(q)
    \/ StuffPrompt(q)
    \/ Generate(q)
    \/ ProcessSources(q)
    \/ ExtractTools(q)
    \/ AssembleResult(q)

\* rag_engine.query(...) called directly, as the tests do, with any object
\* as user_role.
DirectQuery(q) ==
    /\ Idle
    /\ \E question \in Questions, user_role \in RoleValues, include_sources \in BOOLEAN :
         qs' = [qs EXCEPT ![q] =
                   [IdleQ EXCEPT !.pc = "acquire", !.entry = "direct",
                                 !.question = question, !.user_role = user_role,
                                 !.include_sources = include_sources]]
    /\ lastResp' = NoResp
    /\ UNCHANGED <<dirExists, files, coll, runs, retriever>>

\* rag_engine.query(...) called on the one engine object from a thread of
\* its own, whatever the other threads are doing.
ThreadQuery(q) ==
    /\ qs[q].pc = "idle"
    /\ \E user_role \in {"doctor", "general"} :
         qs' = [qs EXCEPT ![q] =
                   [IdleQ EXCEPT !.pc = "acquire", !.entry = "direct",
                                 !.question = "q1", !.user_role = user_role,
                                 !.include_sources = TRUE]]
    /\ lastResp' = NoResp
    /\ UNCHANGED <<dirExists, files, coll, runs, retriever>>

---------------------------------------------------------------------------
\* main.py: the endpoints that do not start a query

\* An endpoint with one handler for both setup errors.
IngestStatus_one_handler(exc) ==
    CASE exc = "none" -> 200
      [] exc = "FileNotFoundError" -> 400
      [] exc = "ValueError" -> 400
      [] OTHER -> 500

\* What load_documents can find at settings.DOCUMENTS_PATH.
Directory ==
    IF ~dirExists THEN "absent" ELSE IF files = {} THEN "empty" ELSE "files"

\* The status /ingest answers with for what ingest_documents raised.
IngestStatus(exc) ==
    CASE exc = "none" -> 200
      [] exc = "FileNotFoundError" -> 404
      [] exc = "ValueError" -> 400
      [] OTHER -> 500

\* POST /ingest
IngestEndpoint(force_reindex) ==
    /\ Idle
    /\ \E env \in IngestEnvs :
         LET out == ingest_documents(force_reindex, coll, env) IN
         /\ out.wrote => Len(runs) < MaxWrites
         /\ coll' = out.coll
         /\ runs' = IF out.wrote THEN Append(runs, force_reindex) ELSE runs
         /\ lastResp' = [kind |-> "ingest",
                         status |-> IngestStatus(out.exc),
                         force_reindex |-> force_reindex,
                         before |-> CollectionCount(coll),
                         directory |-> Directory,
                         message |-> IF out.documents > 0
                                     THEN "Documents ingested successfully"
                                     ELSE "No new documents to ingest",
                         documents_processed |-> out.documents,
                         chunks_created |-> out.chunks,
                         time_taken_seconds |-> out.time,
                         stages |-> out.stages]
    /\ UNCHANGED <<dirExists, files, retriever, qs>>

\* The documents directory is changed from outside the service: created,
\* removed, files added or deleted.
ChangeDocuments(d, f) ==
    /\ Idle
    /\ d = FALSE => f = {}
    /\ <<d, f>> # <<dirExists, files>>
    /\ dirExists' = d
    /\ files' = f
    /\ UNCHANGED <<coll, runs, retriever, qs, lastResp>>

\* GET /health (and /stats): document_processor.get_document_count()
HealthEndpoint ==
    /\ Idle
    /\ \E raises \in BOOLEAN :
         lastResp' = [kind |-> "count",
                      document_count |-> get_document_count(coll, raises),
                      after |-> IF lastResp.kind = "ingest" THEN lastResp ELSE NoResp]
    /\ UNCHANGED <<dirExists, files, coll, runs, retriever, qs>>

---------------------------------------------------------------------------
\* tools/: the registry and the five tools

RegisteredTools == {ToolNames[i] : i \in 1..Len(ToolNames)}

\* What a caller may name: a registered tool or a name that is none.
CallableNames == RegisteredTools \cup {"unknown_tool"}

\* schema.required_params of each tool.
required_params(tool) ==
    CASE tool = "get_current_datetime" -> {}
      [] tool = "calculate_age" -> {"birthdate"}
      [] tool = "get_working_hours" -> {"department"}
      [] tool = "search_internal_docs" -> {"query"}
      [] tool = "web_search" -> {"query"}

\* The parameters of each execute(self, ...) that have no default value.
Positional(tool) ==
    CASE tool = "get_current_datetime" -> {}
      [] tool = "calculate_age" -> {"birthdate"}
      [] tool = "get_working_hours" -> {"department"}
      [] tool = "search_internal_docs" -> {"query"}
      [] tool = "web_search" -> {"query"}

\* The parameters of each execute(self, ...) that have a default value.
Defaulted(tool) ==
    CASE tool = "get_current_datetime" -> {"timezone"}
      [] tool = "calculate_age" -> {"reference_date"}
      [] tool = "get_working_hours" -> {}
      [] tool = "search_internal_docs" -> {"doc_type", "limit"}
      [] tool = "web_search" -> {"source_filter"}

\* The keyword arguments a caller may pass: any of the tool's parameters,
\* each with a value the tool can use ("valid") or one it cannot ("malformed").
ParamValues == {"valid", "malformed"}
KwargsOf(tool) ==
    LET names == IF tool \in RegisteredTools
                 THEN Positional(tool) \cup Defaulted(tool) ELSE {}
    IN  UNION {[S -> ParamValues] : S \in SUBSET names}

\* BaseTool.validate_params(**passed): the first required parameter that is
\* not among the keywords it was called with, "none" when all are there.
validate_params(tool, passed) ==
    IF \E r \in required_params(tool) : r \notin passed
    THEN CHOOSE r \in required_params(tool) : r \notin passed
    ELSE "none"

\* BaseTool.format_result
format_result(tool, success, error) ==
    [kind |-> "result", success |-> success, error |-> error, names |-> {},
     tool_name |-> tool]

\* The value execute works with for parameter p: the caller's, or the default.
Arg(kwargs, p) == IF p \in DOMAIN kwargs THEN kwargs[p] ELSE "valid"

\* The body of each execute once its arguments are bound: validate_params is
\* called with the tool's own arguments, then the tool does its work; every
\* exception is caught and formatted.
ToolBody(tool, kwargs) ==
    LET missing == validate_params(tool, Positional(tool) \cup
                      (IF tool = "get_current_datetime" THEN {"timezone"} ELSE {}))
    IN
    IF missing # "none"
    THEN [format_result(tool, FALSE, "Missing required parameter") EXCEPT
             !.names = {missing}]
    ELSE CASE tool = "get_current_datetime" ->
                IF Arg(kwargs, "timezone") = "valid"
                THEN format_result(tool, TRUE, "none")
                ELSE format_result(tool, FALSE, "Error getting datetime")
           [] tool = "calculate_age" ->
                IF Arg(kwargs, "birthdate") = "valid"
                   /\ Arg(kwargs, "reference_date") = "valid"
                THEN format_result(tool, TRUE, "none")
                ELSE format_result(tool, FALSE, "Invalid date format")
           [] tool = "get_working_hours" ->
                IF Arg(kwargs, "department") = "valid"
                THEN format_result(tool, TRUE, "none")
                ELSE format_result(tool, FALSE, "Department not found")
           [] tool = "search_internal_docs" ->
                IF Arg(kwargs, "limit") = "valid"
                THEN format_result(tool, TRUE, "none")
                ELSE format_result(tool, FALSE, "Search failed")
           [] tool = "web_search" -> format_result(tool, TRUE, "none")

\* await tool.execute(**kwargs): Python binds the keywords to the parameters
\* first and raises TypeError, naming them, when one without a default is
\* missing; the body (and its try) runs only after that.
CallExecute(tool, kwargs) ==
    LET unbound == Positional(tool) \ DOMAIN kwargs IN
    IF unbound # {}
    THEN [kind |-> "exception", success |-> FALSE, error |-> "TypeError",
          names |-> unbound, tool_name |-> tool]
    ELSE ToolBody(tool, kwargs)

\* A registry that hands out a default tool for a name it does not know.
get_tool_defaulting(tool_name) ==
    IF tool_name \in RegisteredTools THEN tool_name ELSE "web_search"

\* ToolRegistry.get_tool: self.tools.get(tool_name), None ("absent") for a
\* name that is no key of the dict.
get_tool(tool_name) ==
    IF tool_name \in RegisteredTools THEN tool_name ELSE "absent"

\* ToolRegistry.execute_tool(tool_name, **kwargs): tool_name of the outcome is
\* the tool whose execute was called ("none" when no execute was called).
execute_tool(tool_name, kwargs) ==
    LET tool == get_tool(tool_name) IN
    IF tool = "absent"
    THEN [kind |-> "result", success |-> FALSE, error |-> "not found",
          names |-> {}, tool_name |-> "none"]
    ELSE CallExecute(tool, kwargs)

\* POST /execute-tool: 200 with whatever execute_tool returned, 500 when it
\* raised.
ExecuteToolEndpoint(tool_name) ==
    /\ Idle
    /\ \E kwargs \in KwargsOf(tool_name) :
         LET out == execute_tool(tool_name, kwargs) IN
         lastResp' = [kind |-> "tool", tool |-> tool_name, kwargs |-> kwargs,
                      status |-> IF out.kind = "exception" THEN 500 ELSE 200,
                      out |-> out]
    /\ UNCHANGED <<dirExists, files, coll, runs, retriever, qs>>

---------------------------------------------------------------------------
\* config.py: provider selection

\* The value of an API-key field that no environment variable sets (None).
Unset == "<None>"

\* What the environment can give the fields provider selection reads.
KeyValues == {Unset, "", "key-1"}
Environments ==
    [GEMINI_API_KEY : KeyValues, OPENAI_API_KEY : KeyValues,
     CHAT_MODEL : {"models/gemini-2.5-flash", "gpt-4o-mini"},
     EMBEDDING_MODEL : {"models/gemini-embedding-001", "text-embedding-3-small"}]

\* Settings.is_gemini_configured, Settings.is_openai_configured
is_gemini_configured(st) == st.GEMINI_API_KEY # Unset
is_openai_configured(st) == st.OPENAI_API_KEY # Unset

NotCalled == [exc |-> "not called"]

\* Settings.get_llm_config
get_llm_config(st) ==
    IF is_gemini_configured(st)
    THEN [exc |-> "none", provider |-> "gemini",
          api_key |-> st.GEMINI_API_KEY, model |-> st.CHAT_MODEL]
    ELSE IF is_openai_configured(st)
    THEN [exc |-> "none", provider |-> "openai",
          api_key |-> st.OPENAI_API_KEY, model |-> st.CHAT_MODEL]
    ELSE [exc |-> "ValueError"]

\* An embedding configuration that looks for the OpenAI key first.
get_embedding_config_openai_first(st) ==
    IF is_openai_configured(st)
    THEN [exc |-> "none", provider |-> "openai",
          api_key |-> st.OPENAI_API_KEY, model |-> st.EMBEDDING_MODEL]
    ELSE IF is_gemini_configured(st)
    THEN [exc |-> "none", provider |-> "gemini",
          api_key |-> st.GEMINI_API_KEY, model |-> st.EMBEDDING_MODEL]
    ELSE [exc |-> "ValueError"]

\* Settings.get_embedding_config
get_embedding_config(st) ==
    IF is_gemini_configured(st)
    THEN [exc |-> "none", provider |-> "gemini",
          api_key |-> st.GEMINI_API_KEY, model |-> st.EMBEDDING_MODEL]
    ELSE IF is_openai_configured(st)
    THEN [exc |-> "none", provider |-> "openai",
          api_key |-> st.OPENAI_API_KEY, model |-> st.EMBEDDING_MODEL]
    ELSE [exc |-> "ValueError"]

\* The fields class Settings declares: reading any other attribute of the
\* settings object raises AttributeError.
SettingsFields ==
    {"GEMINI_API_KEY", "OPENAI_API_KEY", "APP_NAME", "APP_VERSION", "DEBUG_MODE",
     "CHROMA_PERSIST_DIRECTORY", "CHROMA_COLLECTION_NAME", "DOCUMENTS_PATH",
     "CHUNK_SIZE", "CHUNK_OVERLAP", "RETRIEVAL_TOP_K", "LLM_TEMPERATURE",
     "LLM_MAX_OUTPUT_TOKENS", "EMBEDDING_MODEL", "CHAT_MODEL"}

\* The settings each branch of _initialize_llm reads to build its client:
\* the temperature and the maximum length of the answer.
LlmSettingsRead(provider) ==
    IF provider = "gemini"
    THEN [temperature |-> "LLM_TEMPERATURE", max_length |-> "LLM_MAX_OUTPUT_TOKENS"]
    ELSE [temperature |-> "LLM_TEMPERATURE", max_length |-> "LLM_MAX_TOKENS"]

\* RAGEngine._initialize_llm: the chat client of the configured provider, or
\* the exception that building it raises.
initialize_llm(st) ==
    LET llm_config == get_llm_config(st) IN
    IF llm_config.exc # "none" THEN [exc |-> llm_config.exc]
    ELSE LET read == LlmSettingsRead(llm_config.provider) IN
         IF {read.temperature, read.max_length} \subseteq SettingsFields
         THEN [exc |-> "none", provider |-> llm_config.provider,
               temperature |-> read.temperature, max_length |-> read.max_length]
         ELSE [exc |-> "AttributeError", provider |-> llm_config.provider,
               temperature |-> read.temperature, max_length |-> read.max_length]

\* "settings = Settings()" and the validation that follows it: importing the
\* module raises ValueError when neither provider is configured.
LoadSettings(env) ==
    /\ lastResp = NoResp
    /\ lastResp' = [kind |-> "settings", settings |-> env,
                    started |-> (is_gemini_configured(env) \/ is_openai_configured(env)),
                    llm |-> NotCalled, embedding |-> NotCalled,
                    engine |-> NotCalled]
    /\ UNCHANGED <<dirExists, files, coll, runs, retriever, qs>>

\* RAGEngine._initialize_llm asks for the chat configuration.
GetLlmConfig ==
    /\ lastResp.kind = "settings"
    /\ lastResp.started
    /\ lastResp.llm = NotCalled
    /\ lastResp' = [lastResp EXCEPT !.llm = get_llm_config(lastResp.settings)]
    /\ UNCHANGED <<dirExists, files, coll, runs, retriever, qs>>

\* DocumentProcessor._initialize_embeddings asks for the embedding
\* configuration.
GetEmbeddingConfig ==
    /\ lastResp.kind = "settings"
    /\ lastResp.started
    /\ lastResp.embedding = NotCalled
    /\ lastResp' = [lastResp EXCEPT
                       !.embedding = get_embedding_config(lastResp.settings)]
    /\ UNCHANGED <<dirExists, files, coll, runs, retriever, qs>>

\* "rag_engine = RAGEngine()": the constructor builds the chat client.
InitializeEngine ==
    /\ lastResp.kind = "settings"
    /\ lastResp.started
    /\ lastResp.engine = NotCalled
    /\ lastResp' = [lastResp EXCEPT !.engine = initialize_llm(lastResp.settings)]
    /\ UNCHANGED <<dirExists, files, coll, runs, retriever, qs>>

---------------------------------------------------------------------------
\* The process after its modules are loaded: an empty collection, the engine
\* holding the handle its constructor opened, no request in flight.
Init ==
    /\ dirExists \in BOOLEAN
    /\ files \in SUBSET Docs
    /\ dirExists = FALSE => files = {}
    /\ coll = <<>>
    /\ runs = <<>>
    /\ retriever = Handle(0, 0)
    /\ qs = [q \in 1..NQueries |-> IdleQ]
    /\ lastResp = NoResp

\* The service: requests arrive at the endpoints.
Next ==
    \/ \E force_reindex \in BOOLEAN : IngestEndpoint(force_reindex)
    \/ HealthEndpoint
    \/ \E q \in 1..NQueries : QueryEndpoint(q)
    \/ \E q \in 1..NQueries : CheckDocuments(q)
    \/ \E q \in 1..NQueries : QueryStep(q)
    \/ \E tool_name \in CallableNames : ExecuteToolEndpoint(tool_name)

Spec == Init /\ [][Next]_vars

\* The engine used as a library: ingest_documents and query called directly.
NextDirect ==
    \/ \E force_reindex \in BOOLEAN : IngestEndpoint(force_reindex)
    \/ \E q \in 1..NQueries : DirectQuery(q)
    \/ \E q \in 1..NQueries : QueryStep(q)

SpecDirect == Init /\ [][NextDirect]_vars

\* The engine shared by threads: queries run concurrently, statement by
\* statement in any interleaving.
NextThreads ==
    \/ \E force_reindex \in BOOLEAN : IngestEndpoint(force_reindex)
    \/ \E q \in 1..NQueries : ThreadQuery(q)
    \/ \E q \in 1..NQueries : QueryStep(q)

SpecThreads == Init /\ [][NextThreads]_vars

\* The service while the documents directory changes under it.
NextFiles ==
    \/ \E d \in BOOLEAN, f \in SUBSET Docs : ChangeDocuments(d, f)
    \/ \E force_reindex \in BOOLEAN : IngestEndpoint(force_reindex)
    \/ HealthEndpoint

SpecFiles == Init /\ [][NextFiles]_vars

\* RecursiveCharacterTextSplitter(chunk_size, chunk_overlap, ...): the
\* constructor refuses an overlap larger than the chunk size and nothing else.
TextSplitterInit(chunk_size, chunk_overlap) ==
    IF chunk_overlap > chunk_size THEN "ValueError" ELSE "none"

\* The splitter on a text of n characters without separators, for any
\* chunk_size and chunk_overlap its constructor accepts: after a chunk it
\* drops characters until at most chunk_overlap are kept and the next one
\* fits, so the window moves by chunk_size - chunk_overlap, and by one
\* character when that is zero.
RECURSIVE TextSplitWith(_, _, _)
TextSplitWith(n, chunk_size, chunk_overlap) ==
    IF n <= chunk_size THEN <<n>>
    ELSE <<chunk_size>>
         \o TextSplitWith(n - (IF chunk_size > chunk_overlap
                               THEN chunk_size - chunk_overlap ELSE 1),
                          chunk_size, chunk_overlap)

\* split_documents of a DocumentProcessor built with settings.CHUNK_SIZE =
\* chunk_size and settings.CHUNK_OVERLAP = chunk_overlap (__init__ stores
\* them unchecked), on one document of n characters.
SplitDocuments(chunk_size, chunk_overlap, n) ==
    /\ lastResp' =
          LET exc == TextSplitterInit(chunk_size, chunk_overlap)
              lens == IF exc = "none"
                      THEN TextSplitWith(n, chunk_size, chunk_overlap) ELSE <<>>
          IN  [kind |-> "split", chunk_size |-> chunk_size,
               chunk_overlap |-> chunk_overlap, text |-> n, exc |-> exc,
               chunks |-> [i \in 1..Len(lens) |->
                              [source |-> "a.txt", chunk_index |-> i - 1,
                               chunk_size |-> lens[i]]]]
    /\ UNCHANGED <<dirExists, files, coll, runs, retriever, qs>>

\* The retriever built with search_kwargs k = top_k on a collection of
\* `stored` chunks, and _process_sources on what it returns.
RetrieveSources(top_k, stored) ==
    /\ lastResp' =
          LET source_documents ==
                  [i \in 1..Min(top_k, stored) |->
                      [source |-> "b.txt", chunk_index |-> i - 1,
                       chunk_size |-> CHUNK_SIZE]]
          IN  [kind |-> "sources", top_k |-> top_k, stored |-> stored,
               sources |-> process_sources(source_documents)]
    /\ UNCHANGED <<dirExists, files, coll, runs, retriever, qs>>

\* The pipeline's functions under other values of CHUNK_SIZE, CHUNK_OVERLAP
\* and RETRIEVAL_TOP_K than the defaults.
NextSettings ==
    \/ \E chunk_size \in 1..MaxChunkSize, chunk_overlap \in 0..(MaxChunkSize + 1),
          n \in 1..MaxTextLen :
            SplitDocuments(chunk_size, chunk_overlap, n)
    \/ \E top_k \in 1..MaxTopK, stored \in 0..MaxStored :
            RetrieveSources(top_k, stored)

SpecSettings == Init /\ [][NextSettings]_vars

\* Process start: the settings are read from an environment and the two
\* clients ask for their configuration.
NextConfig ==
    \/ \E env \in Environments : LoadSettings(env)
    \/ GetLlmConfig
    \/ GetEmbeddingConfig
    \/ InitializeEngine

SpecConfig == Init /\ [][NextConfig]_vars

---------------------------------------------------------------------------
\* Properties

Range(f) == {f[i] : i \in DOMAIN f}

\* How many stored copies of chunk ch the collection c holds.
Copies(c, ch) == Cardinality({i \in 1..Len(c) : c[i] = ch})

\* The chunks one ingestion run makes of the documents on disk.
ChunksOnDisk == split_documents(SelectSeq(DocOrder, LAMBDA d : d \in files))

IsPrefix(t, s) == Len(t) <= Len(s) /\ \A i \in 1..Len(t) : t[i] = s[i]

\* The keys of the dict query returns.
ResultKeys ==
    {"kind", "question", "answer", "sources", "user_role", "disclaimer",
     "processing_time_seconds", "tools_used"}

\* C1: when the chain call (qa_chain.invoke: retrieval, prompt filling or the
\* chat-model call) fails during query, query does not raise; it returns a
\* result whose answer says that an error occurred, whose sources and
\* tools_used are empty, and which carries the question, the role and the
\* disclaimer.
C1_ChainFailureReturnsErrorResult ==
    (lastResp.kind = "query" /\ lastResp.at \in {"retrieve", "stuff", "generate"}) =>
        /\ lastResp.outcome = "returned"
        /\ lastResp.status = 200
        /\ DOMAIN lastResp.result = ResultKeys
        /\ lastResp.result.answer = ErrorAnswer
        /\ lastResp.result.sources = <<>>
        /\ lastResp.result.tools_used = <<>>
        /\ lastResp.result.question = lastResp.question
        /\ lastResp.result.user_role = lastResp.user_role
        /\ lastResp.result.disclaimer = DISCLAIMER

\* C1, reached: the chat-model call failed after chunks had been retrieved,
\* and the caller holds the error result.
C1_GenerationFailed ==
    /\ lastResp.kind = "query"
    /\ lastResp.at = "generate"
    /\ lastResp.outcome = "returned"
    /\ lastResp.include_sources
    /\ CollectionCount(coll) > 0

\* C2: while the collection holds zero chunks, a /query request is answered
\* 400 "no documents", and no step of the query pipeline (retrieval and
\* generation among them) is ever attempted for it.
C2_NoDocumentsNoPipeline ==
    CollectionCount(coll) = 0 =>
        /\ \A q \in 1..NQueries :
              /\ qs[q].pc \in {"idle", "check"}
              /\ qs[q].trace = <<>>
        /\ lastResp.kind = "query" =>
              /\ lastResp.status = 400
              /\ lastResp.outcome = "no_documents"
              /\ lastResp.trace = <<>>
              /\ lastResp.result = NoResult

\* C2, reached: a /query request was answered 400 on an empty collection
\* although there are documents on disk to ingest.
C2_AnsweredNoDocuments ==
    /\ lastResp.kind = "query"
    /\ lastResp.status = 400
    /\ CollectionCount(coll) = 0
    /\ files # {}

\* C3: ingest_documents(force_reindex=False) on a collection that holds
\* n >= 1 chunks is a no-op: nothing is loaded, split or embedded, the
\* collection is left as it was, and the call returns (0, n, 0.0).
C3_UnforcedIngestIsNoOp ==
    (lastResp.kind = "ingest" /\ ~lastResp.force_reindex /\ lastResp.before >= 1) =>
        /\ lastResp.status = 200
        /\ lastResp.stages = <<>>
        /\ CollectionCount(coll) = lastResp.before
        /\ lastResp.documents_processed = 0
        /\ lastResp.chunks_created = lastResp.before
        /\ lastResp.time_taken_seconds = 0

\* C4: the count query that immediately follows a completed forced reindex of
\* a populated collection returns the count the collection has after that
\* reindex, not the count it had before.
C4_CountAfterReindexIsNew ==
    (/\ lastResp.kind = "count"
     /\ lastResp.after.kind = "ingest"
     /\ lastResp.after.force_reindex
     /\ lastResp.after.status = 200
     /\ lastResp.after.before >= 1) =>
        /\ lastResp.document_count = CollectionCount(coll)
        /\ lastResp.document_count # lastResp.after.before

Pos(trace, step) ==
    IF \E i \in 1..Len(trace) : trace[i] = step
    THEN CHOOSE i \in 1..Len(trace) : trace[i] = step
    ELSE 0

\* A trace in which step a, when present, comes after step b.
After(trace, a, b) == Pos(trace, a) > 0 => (0 < Pos(trace, b) /\ Pos(trace, b) < Pos(trace, a))

C9_UnrecognisedRoleIsGeneral ==
    (lastResp.kind = "query" /\ lastResp.user_role \notin UserRole) =>
        /\ lastResp.template # <<>> => lastResp.template[1].of = "general"
        /\ lastResp.at \in Range(Steps)
        /\ lastResp.at = "assemble" => lastResp.outcome = "returned"

\* C10: a registered tool with required parameters, executed through the
\* registry without one of them, fails with the validation error that names
\* the missing parameter and not with another exception.
C10_MissingParameterIsValidationError ==
    (/\ lastResp.kind = "tool"
     /\ lastResp.tool \in RegisteredTools
     /\ required_params(lastResp.tool) \ DOMAIN lastResp.kwargs # {}) =>
        /\ lastResp.out.kind = "result"
        /\ ~lastResp.out.success
        /\ lastResp.out.error = "Missing required parameter"
        /\ lastResp.out.names # {}
        /\ lastResp.out.names \subseteq required_params(lastResp.tool) \ DOMAIN lastResp.kwargs

\* C11: for every registered tool and every combination of supplied
\* parameters, execute_tool returns a structured result (success = false with
\* an error message when the tool failed); no exception leaves execute_tool.
C11_ToolFailuresAreStructured ==
    (lastResp.kind = "tool" /\ lastResp.tool \in RegisteredTools) =>
        /\ lastResp.out.kind = "result"
        /\ lastResp.status = 200
        /\ lastResp.out.success = (lastResp.out.error = "none")

\* C12: executing a name that is not registered gives the tool-not-found
\* outcome: get_tool returns absent for it, no tool's execute is called and
\* the outcome is not a success; for a registered name the execute that runs
\* is that tool's.
C12_UnknownToolIsNotFound ==
    lastResp.kind = "tool" =>
        IF lastResp.tool \in RegisteredTools
        THEN /\ get_tool(lastResp.tool) = lastResp.tool
             /\ lastResp.out.tool_name = lastResp.tool
        ELSE /\ get_tool(lastResp.tool) = "absent"
             /\ lastResp.out.kind = "result"
             /\ ~lastResp.out.success
             /\ lastResp.out.error = "not found"
             /\ lastResp.out.tool_name = "none"

\* C12, reached: a name that is not registered was executed.
C12_UnknownToolExecuted ==
    /\ lastResp.kind = "tool"
    /\ lastResp.tool \notin RegisteredTools
    /\ ~lastResp.out.success

\* The registered names that occur in an answer, whatever their case.
Mentioned(answer) ==
    {n \in RegisteredTools :
        \E i \in 1..Len(answer) : Substring(Lower(n), Lower(answer[i]))}

\* C13: tools_used is exactly the set of registered tool names that occur in
\* the answer as a case-insensitive substring: every name that occurs is
\* reported, none that does not occur, none twice, and nothing for an answer
\* that holds no registered name.
C13_ToolsUsedAreTheMentions ==
    /\ \A q \in 1..NQueries :
          Pos(qs[q].trace, "extract") > 0 =>
              /\ Range(qs[q].tools_used) = Mentioned(qs[q].answer)
              /\ Len(qs[q].tools_used) = Cardinality(Mentioned(qs[q].answer))
    /\ (lastResp.kind = "query" /\ lastResp.at = "assemble"
                                /\ lastResp.outcome = "returned") =>
          /\ Range(lastResp.result.tools_used) = Mentioned(lastResp.result.answer)
          /\ Len(lastResp.result.tools_used)
                = Cardinality(Mentioned(lastResp.result.answer))
          /\ Mentioned(lastResp.result.answer) = {} =>
                lastResp.result.tools_used = <<>>

\* C13, reached: an answer that writes one name in capitals and another
\* inside a longer word was scanned and two names were reported.
C13_MentionsReported ==
    /\ lastResp.kind = "query"
    /\ lastResp.outcome = "returned"
    /\ lastResp.result.answer = <<"CALCULATE_AGE", "and", "web_searches">>
    /\ Len(lastResp.result.tools_used) = 2

\* C14: with top_k = K configured, the sources of every query result are at
\* most K, and their relevance_score values do not increase along the list.
C14_AtMostKSourcesByScore ==
    (lastResp.kind = "query" /\ lastResp.outcome = "returned") =>
        /\ Len(lastResp.result.sources) <= RETRIEVAL_TOP_K
        /\ \A i \in 1..Len(lastResp.result.sources) - 1 :
              lastResp.result.sources[i].relevance_score
                 >= lastResp.result.sources[i + 1].relevance_score

\* C14, reached: a query on a collection of more than K chunks returned K
\* sources.
C14_KSourcesOfMore ==
    /\ lastResp.kind = "query"
    /\ lastResp.outcome = "returned"
    /\ CollectionCount(coll) > RETRIEVAL_TOP_K
    /\ Len(lastResp.result.sources) = RETRIEVAL_TOP_K

\* C15: every query opens a new handle on the persisted collection before it
\* retrieves, so what it retrieves is the top of the whole collection as it
\* is then, chunks ingested after the engine was constructed included.
C15_QueryRetrievesThroughFreshHandle ==
    \A q \in 1..NQueries :
        /\ Pos(qs[q].trace, "chain") > 0 =>
              /\ qs[q].chain.retriever.by = q
              /\ qs[q].chain.retriever.count = CollectionCount(coll)
        /\ Pos(qs[q].trace, "retrieve") > 0 =>
              qs[q].docs = TopK(coll, qs[q].question)

\* C15, reached: a query retrieved chunks that were ingested after the
\* engine had been constructed on the empty collection.
C15_RetrievedAfterIngestion ==
    \E q \in 1..NQueries :
        /\ qs[q].pc = "stuff"
        /\ qs[q].docs # <<>>
        /\ Len(runs) >= 1

\* C16: concurrent queries on the one engine share no per-query state: in
\* every interleaving, the chain of a query holds the handle that this query
\* opened and the prompt that this query built.
C16_ChainUsesOwnHandleAndPrompt ==
    \A q \in 1..NQueries :
        Pos(qs[q].trace, "chain") > 0 =>
            /\ qs[q].chain.retriever.by = q
            /\ qs[q].chain.prompt = qs[q].template
            /\ qs[q].template[1].of = qs[q].user_role

\* C17: external provider calls do not block the scheduler: while a /query
\* request is waiting for the chat model, an unrelated request (/health,
\* another /query) can start and complete.
C17_OtherRequestsRunDuringGeneration ==
    \A q \in 1..NQueries :
        (qs[q].entry = "http" /\ qs[q].pc = "generate") =>
            /\ ENABLED HealthEndpoint
            /\ \E other \in (1..NQueries) \ {q} : ENABLED QueryEndpoint(other)

\* The provider the priority rule names for two key fields.
PriorityProvider(gemini_key, openai_key) ==
    IF gemini_key # "<None>" THEN "gemini"
    ELSE IF openai_key # "<None>" THEN "openai"
    ELSE "none"

\* C18: one priority rule selects the provider for chat and for embeddings:
\* Gemini whenever its key is present, otherwise OpenAI when its key is
\* present; with neither key the configuration fails at process start; and
\* get_llm_config and get_embedding_config select the same provider.
C18_ProviderPriority ==
    lastResp.kind = "settings" =>
        LET st == lastResp.settings
            expected == PriorityProvider(st.GEMINI_API_KEY, st.OPENAI_API_KEY)
            key == IF expected = "gemini" THEN st.GEMINI_API_KEY ELSE st.OPENAI_API_KEY
        IN  /\ lastResp.started = (expected # "none")
            /\ lastResp.llm # NotCalled =>
                  /\ lastResp.llm.exc = "none"
                  /\ lastResp.llm.provider = expected
                  /\ lastResp.llm.api_key = key
            /\ lastResp.embedding # NotCalled =>
                  /\ lastResp.embedding.exc = "none"
                  /\ lastResp.embedding.provider = expected
                  /\ lastResp.embedding.api_key = key
            /\ (lastResp.llm # NotCalled /\ lastResp.embedding # NotCalled) =>
                  lastResp.llm.provider = lastResp.embedding.provider

\* C18, reached: both keys are present and both configurations were asked
\* for.
C18_BothKeysBothConfigs ==
    /\ lastResp.kind = "settings"
    /\ lastResp.settings.GEMINI_API_KEY = "key-1"
    /\ lastResp.settings.OPENAI_API_KEY = "key-1"
    /\ lastResp.llm # NotCalled
    /\ lastResp.embedding # NotCalled

\* The prompt as a function of role, chunks, question and tool catalogue.
PromptOf(role, chunks, question, catalogue) ==
    << [section |-> "role",
        of |-> IF role \in {"doctor", "receptionist", "billing"} THEN role ELSE "general"],
       [section |-> "context", of |-> chunks],
       [section |-> "question", of |-> question] >>
    \o (IF catalogue = <<>> THEN <<>> ELSE << [section |-> "tools", of |-> catalogue] >>)
    \o << [section |-> "response", of |-> "instructions"] >>

\* C19: prompt construction is deterministic: the prompt of a query is a
\* function of its role, its retrieved chunks, its question and the tool
\* catalogue alone, so two queries that agree on these get the identical
\* prompt whatever ran in between.
C19_PromptIsDeterministic ==
    \A q \in 1..NQueries :
        Pos(qs[q].trace, "stuff") > 0 =>
            qs[q].prompt = PromptOf(qs[q].user_role, qs[q].docs, qs[q].question,
                                    qs[q].tool_schemas)

\* C19, reached: a query has built its prompt from the chunks it retrieved
\* out of a collection that two ingestion runs have filled.
C19_PromptBuilt ==
    \E q \in 1..NQueries :
        /\ qs[q].pc = "generate"
        /\ qs[q].docs # <<>>
        /\ Len(runs) = 2

\* The names of a prompt's sections, in order.
Sections(prompt) == [i \in 1..Len(prompt) |-> prompt[i].section]

\* C20, as stated: the assembled prompt holds, in this order and once each,
\* the role persona and rules, the tool catalogue, the retrieved chunks, the
\* question and the closing instruction.
C20_ToolsBeforeChunks ==
    \A q \in 1..NQueries :
        Pos(qs[q].trace, "stuff") > 0 =>
            Sections(qs[q].prompt) = <<"role", "tools", "context", "question", "response">>

\* C20, amended: the assembled prompt holds, in this order and once each,
\* the role persona and rules, the retrieved chunks, the question, the tool
\* catalogue and the closing instruction.
C20_ToolsAfterQuestion ==
    \A q \in 1..NQueries :
        Pos(qs[q].trace, "stuff") > 0 =>
            /\ Sections(qs[q].prompt) = <<"role", "context", "question", "tools", "response">>
            /\ qs[q].prompt[2].of = qs[q].docs
            /\ qs[q].prompt[3].of = qs[q].question
            /\ qs[q].prompt[4].of = ToolNames

\* C20, reached: a prompt was assembled around retrieved chunks.
C20_PromptAssembled ==
    \E q \in 1..NQueries :
        /\ Pos(qs[q].trace, "stuff") > 0
        /\ Len(qs[q].docs) > 1

\* The closed set of safety rules.
SafetyRules ==
    {"never diagnose", "never prescribe", "only the provided context",
     "emergencies: call 911", "refusal phrase"}

\* C21: for every role, the template a query is answered with contains each
\* rule of the closed safety set: never diagnose, never prescribe, use only
\* the supplied context, direct emergencies to emergency services, and a
\* graceful-refusal phrase of the role.
C21_EveryRoleHasTheSafetyRules ==
    \A q \in 1..NQueries :
        Pos(qs[q].trace, "template") > 0 =>
            SafetyRules \subseteq ROLE_PROMPTS(qs[q].template[1].of)

\* C25: for every retrieved chunk, whatever its length, the content_preview
\* of its source entry has at most 200 characters.
C25_PreviewAtMost200 ==
    (lastResp.kind = "query" /\ lastResp.outcome = "returned") =>
        \A i \in 1..Len(lastResp.result.sources) :
            lastResp.result.sources[i].content_preview <= 200

\* C27: as long as every ingestion that wrote ran with force_reindex=False,
\* the collection holds no more chunks than one ingestion run of the
\* (unchanged) documents makes.
C27_UnforcedIngestsKeepOneCopy ==
    (\A i \in 1..Len(runs) : ~runs[i]) =>
        CollectionCount(coll) <= Len(ChunksOnDisk)

\* C28: /query answers "No documents ingested" only when the collection
\* holds zero chunks.
C28_NoDocumentsOnlyWhenEmpty ==
    (lastResp.kind = "query" /\ lastResp.outcome = "no_documents") =>
        CollectionCount(coll) = 0

\* C30: get_current_datetime called with a timezone that is no valid zone
\* returns a successful result.
C30_BadTimezoneFallsBackToUTC ==
    (/\ lastResp.kind = "tool"
     /\ lastResp.tool = "get_current_datetime"
     /\ "timezone" \in DOMAIN lastResp.kwargs
     /\ lastResp.kwargs["timezone"] = "malformed") =>
        lastResp.out.success

\* The pieces the splitter makes of the documents on disk, with the length
\* of each piece's text.
PiecesOnDisk == SplitAll(SelectSeq(DocOrder, LAMBDA d : d \in files))

C29_FallbackEngineInitialises ==
    (/\ lastResp.kind = "settings"
     /\ ~is_gemini_configured(lastResp.settings)
     /\ is_openai_configured(lastResp.settings)) =>
        /\ lastResp.started
        /\ lastResp.engine # NotCalled =>
              /\ lastResp.engine.exc = "none"
              /\ lastResp.engine.provider = "openai"
              /\ {lastResp.engine.temperature, lastResp.engine.max_length}
                     \subseteq SettingsFields

\* C24: an ingestion that stops at document loading answers 404 when the
\* documents directory is absent and 400 when the directory holds no
\* matching file, and leaves the collection as it was.
C24_SetupErrorsDistinguished ==
    (lastResp.kind = "ingest" /\ lastResp.stages = <<"load">>) =>
        /\ lastResp.directory = "absent" => lastResp.status = 404
        /\ lastResp.directory = "empty" => lastResp.status = 400
        /\ lastResp.status \in {404, 400}
        /\ CollectionCount(coll) = lastResp.before

\* A forced ingestion found the directory gone after an earlier run had
\* populated the collection.
C24_DirectoryRemovedAfterIngestion ==
    /\ lastResp.kind = "ingest"
    /\ lastResp.stages = <<"load">>
    /\ lastResp.directory = "absent"
    /\ lastResp.before > 0

\* C23: splitting with chunk_overlap >= chunk_size, equality included,
\* raises an error and produces no chunk.
C23_OverlapNotBelowSizeIsRefused ==
    (lastResp.kind = "split" /\ lastResp.chunk_overlap >= lastResp.chunk_size) =>
        /\ lastResp.exc # "none"
        /\ lastResp.chunks = <<>>

\* C26: whatever top_k is configured and however many chunks are retrieved,
\* every source entry's relevance_score lies between 0 and 1 (0 and 100
\* hundredths).
C26_RelevanceScoreInUnitRange ==
    lastResp.kind = "sources" =>
        \A i \in 1..Len(lastResp.sources) :
            /\ lastResp.sources[i].relevance_score >= 0
            /\ lastResp.sources[i].relevance_score <= 100

===========================================================================
